---- MODULE Spec2Model ----
(***************************************************************************)
(* Campaign orchestration pipeline: CampaignWorkflow (per-record dispatch) *)
(* and EfficientCampaignWorkflow (group-based), with the agents the graph  *)
(* nodes call.  One behaviour is one call of run_campaign(location,        *)
(* campaign_trigger) against a store of customers and campaign records.    *)
(*                                                                         *)
(* State fields that the code only ever reads through                      *)
(* state.get(key, default) are modelled by their effective value: a key    *)
(* that was never set holds the default.                                   *)
(***************************************************************************)
EXTENDS Integers, Sequences, FiniteSets, TLC

\* ------------------------------------------------------------------ bounds
MaxCustomers == 2
MaxVehicles == 2
\* most external calls (delivery, status write) that fail in one run
MaxFaults == 2

\* ------------------------------------------------------------ input domains
Locations == {"Mumbai", "Pune"}
Triggers == {"weather", "holiday", "lifecycle", "scheduled", "weather_alert"}
Workflows == {"campaign", "efficient"}

CustomerIds == 1..MaxCustomers

\* A customers row with its vehicles rows: preferred_location and the number
\* of vehicles.
CustomerRows == [preferred_location : Locations, vehicles : 0..MaxVehicles]

\* For each customer, how many of the vehicles meet one of the service-need
\* predicates of _service_need_targeting on the day of the run.
ServiceNeeds(db) ==
  { n \in [CustomerIds -> 0..MaxVehicles] : \A i \in CustomerIds : n[i] <= db[i].vehicles }

\* --------------------------------------------------------------- variables
VARIABLES
  wf,                 \* which workflow class was constructed
  customers,          \* store: customers/vehicles tables
  batch_size,         \* settings.campaigns.batch_size
  campaigns,          \* store: campaigns table, sequence of rows with a status
  campaign_metrics,   \* store: campaign_metrics table, one row per group campaign
  pc,                 \* position of the run
  location,           \* state['location']
  campaign_trigger,   \* state['campaign_trigger']
  completed_steps,    \* state['completed_steps']
  errors,             \* state['errors'] (the agent that recorded each entry)
  caught,             \* agents whose process() took its except branch
  weather_data,       \* state['weather_data'] is set
  holiday_data,       \* state['holiday_data'] is set
  upcoming_holidays,  \* what _get_upcoming_holidays returns (tracked by SpecHoliday)
  primary_holiday,    \* what _select_primary_holiday returned (<< >> = not called)
  targeted_customers, \* state['targeted_customers'] / state['customer_segments']
  total_targeted,     \* state['total_targeted']
  lookup_failed,      \* _segment_customers took its except branch in this run
  lifecycle_campaigns,\* state['lifecycle_campaigns']
  generated_campaigns,\* state['generated_campaigns']
  grouped_campaigns,  \* state['grouped_campaigns']
  campaigns_created,  \* state['campaigns_created']
  campaigns_sent,     \* state['campaigns_sent']
  dispatch,           \* locals of EmailSenderAgent.process / _send_email_batch
  transac_emails,     \* calls of api_instance.send_transac_email, in order
  sleeps,             \* calls of time.sleep in _send_email_batch, in order
  exc,                \* exception that escaped workflow.invoke ("" = none)
  result              \* what run_campaign gave back to its caller

vars == << wf, customers, batch_size, campaigns, campaign_metrics, pc, location, campaign_trigger,
           completed_steps, errors, caught, weather_data, holiday_data, primary_holiday,
           targeted_customers, total_targeted, lookup_failed, lifecycle_campaigns,
           generated_campaigns, grouped_campaigns, campaigns_created,
           campaigns_sent, dispatch, transac_emails, sleeps, exc, result >>

store_vars == << wf, customers, batch_size, upcoming_holidays >>
input_vars == << location, campaign_trigger >>

\* ------------------------------------------------------------------ graph
\* _route_after_targeting of CampaignWorkflow
route_after_targeting(trigger) ==
  IF trigger = "weather" THEN "weather"
  ELSE IF trigger = "holiday" THEN "holiday"
  ELSE IF trigger = "lifecycle" THEN "lifecycle"
  ELSE "lifecycle"

\* _route_after_targeting of EfficientCampaignWorkflow
efficient_route_after_targeting(trigger) == trigger

router(w, trigger) ==
  IF w = "campaign" THEN route_after_targeting(trigger)
  ELSE efficient_route_after_targeting(trigger)

\* the mapping handed to add_conditional_edges
conditional_edges(w) ==
  IF w = "campaign"
  THEN [k \in {"weather", "holiday", "lifecycle", "scheduled"} |->
          IF k = "weather" THEN "weather_analysis"
          ELSE IF k = "holiday" THEN "holiday_analysis"
          ELSE "vehicle_lifecycle_analysis"]
  ELSE [k \in {"weather", "holiday", "lifecycle", "scheduled"} |->
          IF k = "weather" THEN "weather_analysis"
          ELSE IF k = "holiday" THEN "holiday_analysis"
          ELSE "group_campaign_generation"]

\* a graph whose weather stage is wired straight to dispatch
edge_skips_generation(w, node) ==
  IF w = "campaign"
  THEN CASE node = "weather_analysis" -> "email_sending"
         [] node = "holiday_analysis" -> "campaign_generation"
         [] node = "vehicle_lifecycle_analysis" -> "campaign_generation"
         [] node = "campaign_generation" -> "email_sending"
         [] node = "email_sending" -> "finalize"
         [] node = "finalize" -> "END"
  ELSE CASE node = "weather_analysis" -> "group_campaign_generation"
         [] node = "holiday_analysis" -> "group_campaign_generation"
         [] node = "group_campaign_generation" -> "group_email_sending"
         [] node = "group_email_sending" -> "finalize"
         [] node = "finalize" -> "END"

\* add_edge(from, to)
edge(w, node) ==
  IF w = "campaign"
  THEN CASE node = "weather_analysis" -> "campaign_generation"
         [] node = "holiday_analysis" -> "campaign_generation"
         [] node = "vehicle_lifecycle_analysis" -> "campaign_generation"
         [] node = "campaign_generation" -> "email_sending"
         [] node = "email_sending" -> "finalize"
         [] node = "finalize" -> "END"
  ELSE CASE node = "weather_analysis" -> "group_campaign_generation"
         [] node = "holiday_analysis" -> "group_campaign_generation"
         [] node = "group_campaign_generation" -> "group_email_sending"
         [] node = "group_email_sending" -> "finalize"
         [] node = "finalize" -> "END"

\* name a node appends to completed_steps
step_name(w, node) ==
  IF w = "campaign" THEN node
  ELSE CASE node = "customer_targeting" -> "targeting"
         [] node = "weather_analysis" -> "weather"
         [] node = "holiday_analysis" -> "holiday"
         [] node = "group_campaign_generation" -> "group_campaigns"
         [] node = "group_email_sending" -> "group_emails"
         [] node = "finalize" -> "finalize"

\* BaseAgent._handle_error: append "Error in <agent>: ..." and return state
handle_error(errs, agent) == Append(errs, agent)

NoDispatch == [campaign |-> 0, records |-> << >>, pos |-> 0,
               sent_campaigns |-> << >>,
               all_campaign_records |-> << >>, all_sent_campaigns |-> << >>]

NoResult == [kind |-> "none"]

\* ------------------------------------------------------------------- Init
\* settings.py: batch_size = int(os.getenv('CAMPAIGN_BATCH_SIZE', '50'))
DefaultBatchSize == 50

\* the state after construction over a store whose campaigns table is table
\* and with CAMPAIGN_BATCH_SIZE one of sizes
InitWith(table, sizes) ==
  /\ wf \in Workflows
  /\ customers \in [CustomerIds -> CustomerRows]
  /\ batch_size \in sizes
  /\ campaigns = table
  /\ campaign_metrics = << >>
  /\ pc = "idle"
  /\ location = ""
  /\ campaign_trigger = ""
  /\ completed_steps = << >>
  /\ errors = << >>
  /\ caught = {}
  /\ weather_data = FALSE
  /\ holiday_data = FALSE
  /\ upcoming_holidays = << >>
  /\ primary_holiday = << >>
  /\ targeted_customers = << >>
  /\ total_targeted = 0
  /\ lookup_failed = FALSE
  /\ lifecycle_campaigns = << >>
  /\ generated_campaigns = << >>
  /\ grouped_campaigns = << >>
  /\ campaigns_created = << >>
  /\ campaigns_sent = << >>
  /\ dispatch = NoDispatch
  /\ transac_emails = << >>
  /\ sleeps = << >>
  /\ exc = ""
  /\ result = NoResult

\* a fresh store, the default configuration
Init == InitWith(<< >>, {DefaultBatchSize})

\* the campaigns table an earlier run left: a sent, a failed and a created row
PreviousRun ==
  << [campaign_id |-> 1, customer_id |-> 1, status |-> "sent"],
     [campaign_id |-> 2, customer_id |-> 2, status |-> "failed"],
     [campaign_id |-> 3, customer_id |-> 1, status |-> "created"] >>

\* CAMPAIGN_BATCH_SIZE values of a deployment that sends in several batches
DeployedBatchSizes == {2}

\* a deployment: the store holds the records of an earlier run
InitDeployed == InitWith(PreviousRun, DeployedBatchSizes)

\* ------------------------------------------------------------- targeting
\* rows of a query in ORDER BY c.id, folded per customer by
\* _process_customer_results into CustomerData(customer_id, ..., vehicles)
RECURSIVE customer_results(_, _)
customer_results(selected, i) ==
  IF i > MaxCustomers THEN << >>
  ELSE (IF i \in selected THEN << i >> ELSE << >>) \o customer_results(selected, i + 1)

\* a location query without its WHERE clause: every customer is selected
every_location_targeting(db, loc) ==
  LET ids == customer_results(CustomerIds, 1)
  IN [k \in 1..Len(ids) |-> [customer_id |-> ids[k], vehicles |-> db[ids[k]].vehicles]]

\* _location_based_targeting: WHERE c.preferred_location = %s, LEFT JOIN vehicles
location_based_targeting(db, loc) ==
  LET at_loc == { i \in CustomerIds : db[i].preferred_location = loc }
      ids == customer_results(at_loc, 1)
  IN [k \in 1..Len(ids) |-> [customer_id |-> ids[k], vehicles |-> db[ids[k]].vehicles]]

\* _service_need_targeting: location ignored, only vehicle rows that meet
\* one of the OR-ed predicates survive the WHERE clause
service_need_targeting(db, needing) ==
  LET needs == { i \in CustomerIds : needing[i] > 0 }
      ids == customer_results(needs, 1)
  IN [k \in 1..Len(ids) |-> [customer_id |-> ids[k], vehicles |-> needing[ids[k]]]]

\* a dispatch on the trigger that sends 'scheduled' runs to the location query
segment_scheduled_by_location(db, needing, loc, trigger) ==
  IF trigger \in {"weather", "holiday", "scheduled"}
  THEN location_based_targeting(db, loc)
  ELSE service_need_targeting(db, needing)

\* _segment_customers, query succeeded
segment_customers(db, needing, loc, trigger) ==
  IF trigger \in {"weather", "holiday"}
  THEN location_based_targeting(db, loc)
  ELSE service_need_targeting(db, needing)

TargetingOutcomes == {"ok", "db_error", "exception"}

\* the OR-ed conditions of the WHERE clause of _service_need_targeting
ServicePredicates ==
  {"service_overdue", "service_due_soon", "warranty_expiring", "high_mileage",
   "older_vehicle", "never_serviced"}

\* a vehicles row, by the conditions it meets on the day of the run: none,
\* one of them, or two at once
ServiceVehicleRows ==
  {{}} \cup {{p} : p \in ServicePredicates} \cup {{"service_overdue", "high_mileage"}}

\* the vehicles rows of one customer
ServiceVehicleLists == UNION { [1..n -> ServiceVehicleRows] : n \in 0..2 }

\* a store whose vehicles rows carry the conditions they meet; the customers
\* alternate between the locations
ServiceStores ==
  { [i \in CustomerIds |->
       [preferred_location |-> IF i % 2 = 1 THEN "Mumbai" ELSE "Pune",
        vehicles |-> Len(rows[i]),
        vehicle_rows |-> rows[i]]] :
    rows \in [CustomerIds -> ServiceVehicleLists] }

\* the rows of each customer that survive the WHERE clause
service_needs(db) ==
  [i \in CustomerIds |->
     Cardinality({ v \in DOMAIN db[i].vehicle_rows : db[i].vehicle_rows[v] # {} })]

\* TargetingAgent.process over a store whose queries succeed
segment_store ==
  /\ pc = "customer_targeting"
  /\ completed_steps' = Append(completed_steps, step_name(wf, "customer_targeting"))
  /\ targeted_customers' =
       segment_customers(customers, service_needs(customers), location, campaign_trigger)
  /\ total_targeted' = Len(targeted_customers')
  /\ lookup_failed' = FALSE
  /\ pc' = "route"
  /\ UNCHANGED << store_vars, campaign_metrics, input_vars, campaigns, errors, caught, weather_data,
                  holiday_data, primary_holiday, lifecycle_campaigns, generated_campaigns,
                  grouped_campaigns, campaigns_created, campaigns_sent, dispatch,
                  transac_emails, sleeps, exc, result >>

\* -------------------------------------------------------------- run start
\* run_campaign(location, campaign_trigger): build initial_state, call invoke;
\* the entry point of the graph is customer_targeting
run_campaign(loc, trigger) ==
  /\ pc = "idle"
  /\ location' = loc
  /\ campaign_trigger' = trigger
  /\ pc' = "customer_targeting"
  /\ UNCHANGED << store_vars, campaign_metrics, campaigns, completed_steps, errors, caught,
                  weather_data, holiday_data, primary_holiday, targeted_customers, total_targeted, lookup_failed,
                  lifecycle_campaigns, generated_campaigns, grouped_campaigns,
                  campaigns_created, campaigns_sent, dispatch, transac_emails, sleeps, exc, result >>

\* _targeting_node + TargetingAgent.process
\*   "ok"        the queries ran
\*   "db_error"  _segment_customers caught a connection/query error, returns []
\*   "exception" the except clause of process ran
\*   needing     what the vehicle predicates select on the day of the run
targeting_node ==
  /\ pc = "customer_targeting"
  /\ completed_steps' = Append(completed_steps, step_name(wf, "customer_targeting"))
  /\ \E outcome \in TargetingOutcomes, needing \in ServiceNeeds(customers) :
       IF outcome = "exception"
       THEN /\ errors' = handle_error(errors, "TargetingAgent")
            /\ caught' = caught \cup {"TargetingAgent"}
            /\ UNCHANGED << targeted_customers, total_targeted, lookup_failed >>
       ELSE /\ targeted_customers' =
                 IF outcome = "ok"
                 THEN segment_customers(customers, needing, location, campaign_trigger)
                 ELSE << >>
            /\ total_targeted' = Len(targeted_customers')
            /\ lookup_failed' = (outcome = "db_error")
            /\ UNCHANGED << errors, caught >>
  /\ pc' = "route"
  /\ UNCHANGED << store_vars, campaign_metrics, input_vars, campaigns, weather_data, holiday_data, primary_holiday,
                  lifecycle_campaigns, generated_campaigns, grouped_campaigns,
                  campaigns_created, campaigns_sent, dispatch, transac_emails, sleeps, exc, result >>

\* conditional edge after customer_targeting: the router's key is looked up in
\* the mapping; a key outside the mapping raises KeyError out of invoke
route ==
  /\ pc = "route"
  /\ LET key == router(wf, campaign_trigger)
     IN IF key \in DOMAIN conditional_edges(wf)
        THEN /\ pc' = conditional_edges(wf)[key]
             /\ exc' = exc
        ELSE /\ pc' = "raised"
             /\ exc' = "KeyError"
  /\ UNCHANGED << store_vars, campaign_metrics, input_vars, campaigns, completed_steps, errors, caught,
                  weather_data, holiday_data, primary_holiday, targeted_customers, total_targeted, lookup_failed,
                  lifecycle_campaigns, generated_campaigns, grouped_campaigns,
                  campaigns_created, campaigns_sent, dispatch, transac_emails, sleeps, result >>

\* -------------------------------------------------------- context stages
\* _weather_node + WeatherAgent.process
\*   "ok"        _fetch_weather_data returned the weather, weather_data is set
\*   "no_data"   _fetch_weather_data caught RequestException/KeyError and
\*               returned None: a warning is logged, nothing is recorded
\*   "exception" the except clause of process ran
weather_node(outcome) ==
  /\ pc = "weather_analysis"
  /\ completed_steps' = Append(completed_steps, step_name(wf, "weather_analysis"))
  /\ weather_data' = IF outcome = "ok" THEN TRUE ELSE weather_data
  /\ IF outcome = "exception"
     THEN /\ errors' = handle_error(errors, "WeatherAgent")
          /\ caught' = caught \cup {"WeatherAgent"}
     ELSE UNCHANGED << errors, caught >>
  /\ pc' = edge(wf, "weather_analysis")
  /\ UNCHANGED << store_vars, campaign_metrics, input_vars, campaigns, holiday_data, primary_holiday,
                  targeted_customers, total_targeted, lookup_failed, lifecycle_campaigns,
                  generated_campaigns, grouped_campaigns, campaigns_created,
                  campaigns_sent, dispatch, transac_emails, sleeps, exc, result >>

\* _holiday_node + HolidayAgent.process
\*   "ok"        an upcoming holiday was selected, holiday_data is set
\*   "no_data"   _get_upcoming_holidays returned [] (calendar errors are caught
\*               inside _fetch_google_calendar_holidays and fall back)
\*   "exception" the except clause of process ran
holiday_node(outcome) ==
  /\ pc = "holiday_analysis"
  /\ completed_steps' = Append(completed_steps, step_name(wf, "holiday_analysis"))
  /\ holiday_data' = IF outcome = "ok" THEN TRUE ELSE holiday_data
  /\ IF outcome = "exception"
     THEN /\ errors' = handle_error(errors, "HolidayAgent")
          /\ caught' = caught \cup {"HolidayAgent"}
     ELSE UNCHANGED << errors, caught >>
  /\ pc' = edge(wf, "holiday_analysis")
  /\ UNCHANGED << store_vars, campaign_metrics, input_vars, campaigns, weather_data, primary_holiday,
                  targeted_customers, total_targeted, lookup_failed, lifecycle_campaigns,
                  generated_campaigns, grouped_campaigns, campaigns_created,
                  campaigns_sent, dispatch, transac_emails, sleeps, exc, result >>

\* ------------------------------------------------------ holiday selection
\* bound on the number of upcoming holidays of one run
MaxHolidays == 2

\* 'type' and 'travel_impact' of the holidays of _map_holiday_to_campaign_data
\* and _get_default_holidays, and days_until values on each side of the
\* proximity thresholds
HolidayTypes == {"Major Festival", "Festival", "Religious Festival", "Celebration"}
TravelImpacts == {"High", "Medium", "Low"}
HolidayDays == {2, 5, 14}

Holidays == [type : HolidayTypes, travel_impact : TravelImpacts, days_until : HolidayDays]

\* _get_upcoming_holidays returns its list sorted by days_until, closest first
UpcomingHolidayLists ==
  UNION { { l \in [1..n -> Holidays] :
              \A i, j \in 1..n : i < j => l[i].days_until <= l[j].days_until } :
          n \in 0..MaxHolidays }

\* holiday_priority_score, the inner function of _select_primary_holiday
holiday_priority_score(holiday) ==
  (IF holiday.type = "Major Festival" THEN 10
   ELSE IF holiday.type = "Festival" THEN 7
   ELSE IF holiday.type = "Religious Festival" THEN 8
   ELSE 0)
  + (IF holiday.travel_impact = "High" THEN 5
     ELSE IF holiday.travel_impact = "Medium" THEN 3
     ELSE 0)
  + (IF 7 <= holiday.days_until /\ holiday.days_until <= 21 THEN 8
     ELSE IF 3 <= holiday.days_until /\ holiday.days_until <= 30 THEN 5
     ELSE 0)

\* list.sort(key=score, reverse=True): a stable sort, elements of equal score
\* keep their order
RECURSIVE sort_by_score(_)
sort_by_score(holidays) ==
  IF holidays = << >> THEN << >>
  ELSE LET n == Len(holidays)
           rest == sort_by_score(SubSeq(holidays, 1, n - 1))
           x == holidays[n]
           k == Cardinality({i \in DOMAIN rest :
                               holiday_priority_score(rest[i]) >= holiday_priority_score(x)})
       IN SubSeq(rest, 1, k) \o << x >> \o SubSeq(rest, k + 1, Len(rest))

\* variant of _select_primary_holiday that takes the closest holiday
select_closest_holiday(holidays) ==
  IF holidays = << >> THEN << >> ELSE << holidays[1] >>

\* _select_primary_holiday; << >> stands for None, << h >> for the holiday h
select_primary_holiday(holidays) ==
  IF holidays = << >> THEN << >> ELSE << sort_by_score(holidays)[1] >>

\* HolidayAgent.process over the list _get_upcoming_holidays returned
holiday_process ==
  /\ pc = "holiday_analysis"
  /\ IF upcoming_holidays # << >>
     THEN /\ primary_holiday' = select_primary_holiday(upcoming_holidays)
          /\ holiday_data' = TRUE
     ELSE UNCHANGED << primary_holiday, holiday_data >>
  /\ completed_steps' = Append(completed_steps, step_name(wf, "holiday_analysis"))
  /\ pc' = edge(wf, "holiday_analysis")
  /\ UNCHANGED << store_vars, campaign_metrics, input_vars, campaigns, errors, caught, weather_data,
                  targeted_customers, total_targeted, lookup_failed, lifecycle_campaigns,
                  generated_campaigns, grouped_campaigns, campaigns_created,
                  campaigns_sent, dispatch, transac_emails, sleeps, exc, result >>

\* _vehicle_lifecycle_node + VehicleLifecycleAgent.process.
\* state['targeted_customers'] holds the CustomerData objects built by
\* _process_customer_results; _analyze_vehicle_lifecycle calls
\* customer.get('vehicle', {}) on the first of them, which raises
\* AttributeError, so with a non-empty list the except clause of process
\* runs: it logs, sets lifecycle_campaigns to [] and returns the state
\* without touching state['errors'].
vehicle_lifecycle_node ==
  /\ pc = "vehicle_lifecycle_analysis"
  /\ completed_steps' = Append(completed_steps, step_name(wf, "vehicle_lifecycle_analysis"))
  /\ IF targeted_customers = << >>
     THEN UNCHANGED << lifecycle_campaigns, caught >>
     ELSE /\ lifecycle_campaigns' = << >>
          /\ caught' = caught \cup {"VehicleLifecycleAgent"}
  /\ pc' = edge(wf, "vehicle_lifecycle_analysis")
  /\ UNCHANGED << store_vars, campaign_metrics, input_vars, campaigns, errors, weather_data, holiday_data, primary_holiday,
                  targeted_customers, total_targeted, lookup_failed,
                  generated_campaigns, grouped_campaigns, campaigns_created,
                  campaigns_sent, dispatch, transac_emails, sleeps, exc, result >>

\* ------------------------------------------------- lifecycle bucketing
\* thresholds of _analyze_vehicle_lifecycle
UltraHighMileage == 100000
HighMileage == 50000
WarrantyWindowDays == 180
ServiceDueDays == 180
\* days_since_service of a vehicle without a last service date
DefaultDaysSinceService == 365

\* vehicle data on the day of the run: days since the purchase date, mileage,
\* (warranty_end - now).days and (now - last_service_date).days
AgeDays == {200, 1000, 1500, 3000}
Mileages == {40000, 50000, 100000, 120000}
WarrantyDays == {-10, 0, 180, 181}
ServiceDays == {100, 600}

LifecycleVehicles ==
  [age_days : AgeDays, mileage : Mileages,
   has_warranty_end : {TRUE}, warranty_days : WarrantyDays,
   has_last_service : {TRUE}, service_days : ServiceDays]
  \cup [age_days : AgeDays, mileage : Mileages,
        has_warranty_end : {FALSE}, warranty_days : {0},
        has_last_service : {TRUE}, service_days : ServiceDays]
  \cup [age_days : AgeDays, mileage : Mileages,
        has_warranty_end : {TRUE}, warranty_days : WarrantyDays,
        has_last_service : {FALSE}, service_days : {0}]

\* the customers _analyze_vehicle_lifecycle can be handed: CustomerData
\* objects (is_dict = FALSE) and dictionaries with a 'vehicle' entry
LifecycleCustomers ==
  [customer_id : CustomerIds, is_dict : BOOLEAN, vehicle : LifecycleVehicles]

\* _calculate_years_since(purchase_date) <= years, with
\* years = days / 365.25
age_at_most(age_days, years) == 4 * age_days <= 1461 * years

\* customer_data['days_since_service']
days_since_service(vehicle) ==
  IF vehicle.has_last_service THEN vehicle.service_days ELSE DefaultDaysSinceService

\* the keys of ownership_segments one vehicle is appended to
ownership_segments(vehicle) ==
  (IF age_at_most(vehicle.age_days, 1) THEN {"new_owners"}
   ELSE IF age_at_most(vehicle.age_days, 3) THEN {"early_owners"}
   ELSE IF age_at_most(vehicle.age_days, 5) THEN {"mid_owners"}
   ELSE {"veteran_owners"})
  \cup (IF vehicle.mileage >= UltraHighMileage THEN {"ultra_high_mileage"}
        ELSE IF vehicle.mileage >= HighMileage THEN {"high_mileage"}
        ELSE {})
  \cup (IF vehicle.has_warranty_end /\ vehicle.warranty_days <= WarrantyWindowDays
        THEN {"warranty_expiring"} ELSE {})
  \cup (IF days_since_service(vehicle) > ServiceDueDays THEN {"service_due"} ELSE {})

\* the order in which the _generate_*_campaigns functions look at the segments
LifecycleSegments ==
  << "new_owners", "early_owners", "mid_owners", "veteran_owners", "high_mileage",
     "ultra_high_mileage", "warranty_expiring", "service_due" >>

\* _analyze_vehicle_lifecycle: one campaign per segment that has members
analyze_vehicle_lifecycle(targets) ==
  LET members(seg) ==
        SelectSeq(targets, LAMBDA c : seg \in ownership_segments(c.vehicle))
      present == SelectSeq(LifecycleSegments, LAMBDA seg : members(seg) # << >>)
  IN [k \in 1..Len(present) |->
        [campaign_type |-> present[k], target_customers |-> members(present[k])]]

\* VehicleLifecycleAgent.process with customers in the state:
\* customer.get('vehicle', {}) raises AttributeError on a CustomerData
\* object, the except clause logs and stores an empty list
analyze_lifecycle ==
  /\ pc = "vehicle_lifecycle_analysis"
  /\ targeted_customers # << >>
  /\ completed_steps' = Append(completed_steps, step_name(wf, "vehicle_lifecycle_analysis"))
  /\ IF \E k \in DOMAIN targeted_customers : ~ targeted_customers[k].is_dict
     THEN /\ lifecycle_campaigns' = << >>
          /\ caught' = caught \cup {"VehicleLifecycleAgent"}
     ELSE /\ lifecycle_campaigns' = analyze_vehicle_lifecycle(targeted_customers)
          /\ UNCHANGED caught
  /\ pc' = edge(wf, "vehicle_lifecycle_analysis")
  /\ UNCHANGED << store_vars, campaign_metrics, input_vars, campaigns, errors, weather_data, holiday_data, primary_holiday,
                  targeted_customers, total_targeted, lookup_failed,
                  generated_campaigns, grouped_campaigns, campaigns_created,
                  campaigns_sent, dispatch, transac_emails, sleeps, exc, result >>

\* ------------------------------------------------------ content generation
\* keys of a campaign dictionary that make up its content template
TemplateFields == {"title", "subject_line", "content", "cta_text"}

\* what the content-generation call gives back
\*   "error"        _invoke_llm raised
\*   "unparsable"   json.loads raised on the answer
\*   "complete"     a JSON object in the requested structure
\*   "no_fields"    a JSON object without the template keys
\*   "other_token"  a JSON object in the requested structure whose content
\*                  uses a placeholder of its own besides {{customer_name}}
LLMResponses == {"error", "unparsable", "complete", "no_fields", "other_token"}

\* the placeholders in the subject line and content of a campaign
template_placeholders(response) ==
  CASE response = "no_fields" -> {}
    [] response = "other_token" -> {"{{customer_name}}", "{{service_due}}"}
    [] OTHER -> {"{{customer_name}}", "{{vehicle_info}}"}

\* _generate_weather_campaign / _generate_holiday_campaign /
\* _generate_lifecycle_campaign: json.loads of the LLM answer with
\* campaign_type and target_customers set on it, whatever keys it has; when
\* the call or the parse raised, the fallback campaign with all its keys
context_campaign(kind, response, targets) ==
  [campaign_type |-> kind,
   fields |-> IF response = "no_fields" THEN {} ELSE TemplateFields,
   placeholders |-> template_placeholders(response),
   target_customers |-> targets]

\* the list CampaignGeneratorAgent.process builds
generate_campaigns(has_weather, has_holiday, lifecycle, response, targets) ==
  (IF has_weather THEN << context_campaign("weather", response, targets) >> ELSE << >>)
  \o (IF has_holiday THEN << context_campaign("holiday", response, targets) >> ELSE << >>)
  \o [k \in 1..Len(lifecycle) |->
        context_campaign(lifecycle[k].campaign_type, response,
                         lifecycle[k].target_customers)]

\* _campaign_generation_node + CampaignGeneratorAgent.process
\*   response    what the content-generation calls of this run give back
\*   raised      the except clause of process ran
campaign_generation_node(response, raised) ==
  /\ pc = "campaign_generation"
  /\ completed_steps' = Append(completed_steps, step_name(wf, "campaign_generation"))
  /\ IF raised
     THEN /\ errors' = handle_error(errors, "CampaignGeneratorAgent")
          /\ caught' = caught \cup {"CampaignGeneratorAgent"}
          /\ UNCHANGED generated_campaigns
     ELSE /\ generated_campaigns' =
               generate_campaigns(weather_data, holiday_data, lifecycle_campaigns,
                                  response, targeted_customers)
          /\ UNCHANGED << errors, caught >>
  /\ pc' = edge(wf, "campaign_generation")
  /\ UNCHANGED << store_vars, campaign_metrics, input_vars, campaigns, weather_data, holiday_data, primary_holiday,
                  targeted_customers, total_targeted, lookup_failed, lifecycle_campaigns,
                  grouped_campaigns, campaigns_created,
                  campaigns_sent, dispatch, transac_emails, sleeps, exc, result >>

\* _group_campaign_node + GroupBasedCampaignGenerator.process.
\* No targeted customers: the state is returned as it is.  Otherwise the
\* weather/holiday/lifecycle branches call customer.get(...) on a CustomerData
\* object (_create_location_based_groups, _determine_service_type), which
\* raises AttributeError into the except clause; any other trigger has no
\* branch and stores an empty group list.
group_campaign_node ==
  /\ pc = "group_campaign_generation"
  /\ completed_steps' = Append(completed_steps, step_name(wf, "group_campaign_generation"))
  /\ IF targeted_customers = << >>
     THEN UNCHANGED << grouped_campaigns, errors, caught >>
     ELSE IF campaign_trigger \in {"holiday", "weather", "lifecycle"}
     THEN /\ errors' = handle_error(errors, "GroupBasedCampaignGenerator")
          /\ caught' = caught \cup {"GroupBasedCampaignGenerator"}
          /\ UNCHANGED grouped_campaigns
     ELSE /\ grouped_campaigns' = << >>
          /\ UNCHANGED << errors, caught >>
  /\ pc' = edge(wf, "group_campaign_generation")
  /\ UNCHANGED << store_vars, campaign_metrics, input_vars, campaigns, weather_data, holiday_data, primary_holiday,
                  targeted_customers, total_targeted, lookup_failed, lifecycle_campaigns,
                  generated_campaigns, campaigns_created,
                  campaigns_sent, dispatch, transac_emails, sleeps, exc, result >>

\* ------------------------------------------------ group campaign generator
\* the customers _create_service_based_groups can be handed: the CustomerData
\* objects TargetingAgent._process_customer_results builds, and dictionaries
\* with a 'vehicle' entry that carries the three service flags
ServiceFlags ==
  [warranty_expiring : BOOLEAN, service_overdue : BOOLEAN, high_mileage : BOOLEAN]

GroupedCustomers ==
  { [customer_id |-> i, is_dict |-> FALSE, vehicle |-> f] :
      i \in CustomerIds, f \in {[warranty_expiring |-> FALSE,
                                 service_overdue |-> FALSE,
                                 high_mileage |-> FALSE]} }
  \cup { [customer_id |-> i, is_dict |-> TRUE, vehicle |-> f] :
           i \in CustomerIds, f \in ServiceFlags }

\* the list state['targeted_customers'] of a lifecycle run: distinct customers
GroupedCustomerLists ==
  { l \in UNION { [1..n -> GroupedCustomers] : n \in 1..MaxCustomers } :
      \A j, k \in DOMAIN l : l[j].customer_id = l[k].customer_id => j = k }

\* _determine_service_type: customer.get('vehicle', {}) raises AttributeError
\* on a CustomerData object; on a dictionary the first flag that is set wins
determine_service_type(customer) ==
  IF ~ customer.is_dict THEN "AttributeError"
  ELSE IF customer.vehicle.warranty_expiring THEN "warranty_expiring"
  ELSE IF customer.vehicle.service_overdue THEN "service_overdue"
  ELSE IF customer.vehicle.high_mileage THEN "high_mileage"
  ELSE "general_service"

\* _create_service_based_groups: service_groups[service_type].append(customer)
\* for every customer, then one group per key in the order the keys appeared
create_service_based_groups(targets) ==
  LET key(k) == determine_service_type(targets[k])
      first(k) == \A j \in 1..(k - 1) : key(j) # key(k)
      firsts == SelectSeq([k \in 1..Len(targets) |-> k], first)
  IN [g \in 1..Len(firsts) |->
        [group_type |-> key(firsts[g]),
         customers |-> SelectSeq(targets,
                                 LAMBDA c : determine_service_type(c) = key(firsts[g]))]]

\* GroupBasedCampaignGenerator.process of a lifecycle run with targeted
\* customers: the groups are stored, or the except clause records the error
create_service_groups ==
  /\ pc = "group_campaign_generation"
  /\ campaign_trigger = "lifecycle"
  /\ targeted_customers # << >>
  /\ completed_steps' = Append(completed_steps, step_name(wf, "group_campaign_generation"))
  /\ IF \E k \in DOMAIN targeted_customers :
          determine_service_type(targeted_customers[k]) = "AttributeError"
     THEN /\ errors' = handle_error(errors, "GroupBasedCampaignGenerator")
          /\ caught' = caught \cup {"GroupBasedCampaignGenerator"}
          /\ UNCHANGED grouped_campaigns
     ELSE /\ grouped_campaigns' = create_service_based_groups(targeted_customers)
          /\ UNCHANGED << errors, caught >>
  /\ pc' = edge(wf, "group_campaign_generation")
  /\ UNCHANGED << store_vars, campaign_metrics, input_vars, campaigns, weather_data, holiday_data, primary_holiday,
                  targeted_customers, total_targeted, lookup_failed, lifecycle_campaigns,
                  generated_campaigns, campaigns_created,
                  campaigns_sent, dispatch, transac_emails, sleeps, exc, result >>

\* _group_email_node + GroupBasedEmailSender.process: grouped_campaigns is
\* empty whenever this node runs (see group_campaign_node), so process logs
\* "No grouped campaigns found" and returns the state.
group_email_node ==
  /\ pc = "group_email_sending"
  /\ grouped_campaigns = << >>
  /\ completed_steps' = Append(completed_steps, step_name(wf, "group_email_sending"))
  /\ pc' = edge(wf, "group_email_sending")
  /\ UNCHANGED << store_vars, campaign_metrics, input_vars, campaigns, errors, caught, weather_data,
                  holiday_data, primary_holiday, targeted_customers, total_targeted, lookup_failed, lifecycle_campaigns,
                  generated_campaigns, grouped_campaigns, campaigns_created,
                  campaigns_sent, dispatch, transac_emails, sleeps, exc, result >>

\* time.sleep(0.1) and time.sleep(2) of _send_email_batch, in milliseconds
EmailDelayMs == 100
BatchDelayMs == 2000

\* ---------------------------------------------------------------- dispatch
\* _email_sending_node, then the head of EmailSenderAgent.process: the totals
\* and lists are emptied and the loop over generated_campaigns starts.
\* (The elif branch needs campaign_content, which is only set together with a
\* non-empty generated_campaigns, so it is never taken.)
email_sending_node ==
  /\ pc = "email_sending"
  /\ completed_steps' = Append(completed_steps, step_name(wf, "email_sending"))
  /\ dispatch' = [NoDispatch EXCEPT !.campaign = 1]
  /\ pc' = "process_campaigns"
  /\ UNCHANGED << store_vars, campaign_metrics, input_vars, campaigns, errors, caught, weather_data,
                  holiday_data, primary_holiday, targeted_customers, total_targeted, lookup_failed, lifecycle_campaigns,
                  generated_campaigns, grouped_campaigns, campaigns_created,
                  campaigns_sent, transac_emails, sleeps, exc, result >>

\* a record list that holds the customer's first record twice
customer_records_repeating(c) ==
  LET first == [customer_id |-> c.customer_id,
                vehicle |-> IF c.vehicles > 0 THEN 1 ELSE 0]
  IN [v \in 1..c.vehicles |-> [customer_id |-> c.customer_id, vehicle |-> v]]
     \o << first >>

\* the records _create_campaign_records makes for one CustomerData object:
\* one per vehicle, or one with empty vehicle_info when there is no vehicle
customer_records(c) ==
  IF c.vehicles > 0
  THEN [v \in 1..c.vehicles |-> [customer_id |-> c.customer_id, vehicle |-> v]]
  ELSE << [customer_id |-> c.customer_id, vehicle |-> 0] >>

\* _create_campaign_records over the customer list, in order
RECURSIVE create_records(_)
create_records(targets) ==
  IF targets = << >> THEN << >>
  ELSE customer_records(Head(targets)) \o create_records(Tail(targets))

\* _create_single_campaign_record: INSERT ... status 'created', one fresh
\* campaign_id per record (the row number stands for the uuid)
insert_records(table, recs) ==
  table \o [k \in 1..Len(recs) |->
              [campaign_id |-> Len(table) + k, customer_id |-> recs[k].customer_id,
               status |-> "created"]]

\* the placeholders _personalize_content replaces, each by the customer's or
\* vehicle's value or by the default of its .get()
Personalizations ==
  {"{{customer_name}}", "{{vehicle_info}}", "{{vehicle_make}}", "{{vehicle_model}}",
   "{{vehicle_year}}", "{{last_service_date}}", "{{next_service_due}}", "{{mileage}}",
   "{{warranty_status}}", "{{customer_location}}"}

\* _personalize_content: str.replace of every key of the mapping in the
\* subject line and the content; what is left of the template's placeholders
personalize_content(campaign) ==
  [placeholders |-> campaign.placeholders \ Personalizations]

\* the campaign_record dictionaries _create_single_campaign_record appends
campaign_records(table, recs, campaign) ==
  [k \in 1..Len(recs) |->
     [campaign_id |-> Len(table) + k, customer_id |-> recs[k].customer_id,
      vehicle |-> recs[k].vehicle,
      personalized_content |-> personalize_content(campaign)]]

\* one turn of the loop over generated_campaigns up to the call of
\* _send_email_batch.  db_ok = FALSE: an INSERT (or the connection) fails,
\* nothing is committed, _create_campaign_records re-raises and the except
\* clause of process returns before the state is updated.
create_campaign_records(db_ok) ==
  /\ pc = "process_campaigns"
  /\ dispatch.campaign <= Len(generated_campaigns)
  /\ LET campaign == generated_campaigns[dispatch.campaign]
         target_customers == campaign.target_customers
         recs == create_records(target_customers)
     IN IF target_customers = << >>
        THEN /\ dispatch' = [dispatch EXCEPT !.campaign = @ + 1]
             /\ UNCHANGED << campaigns, errors, caught, pc >>
        ELSE IF db_ok
        THEN /\ campaigns' = insert_records(campaigns, recs)
             /\ dispatch' = [dispatch EXCEPT !.records = campaign_records(campaigns, recs, campaign),
                                             !.pos = 1,
                                             !.sent_campaigns = << >>]
             /\ pc' = "send_email_batch"
             /\ UNCHANGED << errors, caught >>
        ELSE /\ errors' = handle_error(errors, "EmailSenderAgent")
             /\ caught' = caught \cup {"EmailSenderAgent"}
             /\ pc' = edge(wf, "email_sending")
             /\ UNCHANGED << campaigns, dispatch >>
  /\ UNCHANGED << store_vars, campaign_metrics, input_vars, completed_steps, weather_data,
                  holiday_data, primary_holiday, targeted_customers, total_targeted, lookup_failed, lifecycle_campaigns,
                  generated_campaigns, grouped_campaigns, campaigns_created,
                  campaigns_sent, transac_emails, sleeps, exc, result >>

\* a status update that selects the rows by the customer of the record
update_status_by_customer(table, campaign_id, status, write_ok) ==
  IF write_ok
  THEN [k \in 1..Len(table) |->
          IF table[k].customer_id = table[campaign_id].customer_id
          THEN [table[k] EXCEPT !.status = status]
          ELSE table[k]]
  ELSE table

\* _update_campaign_status: UPDATE campaigns SET status WHERE campaign_id;
\* a failing write is caught and logged, the row keeps its status
update_campaign_status(table, campaign_id, status, write_ok) ==
  IF write_ok
  THEN [k \in 1..Len(table) |->
          IF table[k].campaign_id = campaign_id
          THEN [table[k] EXCEPT !.status = status]
          ELSE table[k]]
  ELSE table

\* a batch that returns the records that succeeded latest first
sent_after_latest_first(sent, record, success) ==
  IF success THEN << record >> \o sent ELSE sent

\* a batch that reports every attempted record as sent
sent_after_any_attempt(sent, record, success) == Append(sent, record)

\* a batch that lists a record that succeeded twice
sent_after_listed_twice(sent, record, success) ==
  IF success THEN sent \o << record, record >> ELSE sent

\* the list _send_email_batch returns grows by the records whose send succeeded
sent_after(sent, record, success) ==
  IF success THEN Append(sent, record) ELSE sent

\* for i in range(0, len(campaign_records), batch_size): the i of the batch
\* that holds the record at (1-based) position pos
batch_start(pos, size) == ((pos - 1) \div size) * size

\* batch = campaign_records[i:i + batch_size]: pos is the last record of it
ends_batch(pos, n, size) ==
  LET i == batch_start(pos, size)
  IN pos = (IF i + size < n THEN i + size ELSE n)

\* if i + batch_size < len(campaign_records): time.sleep(2)
batch_delay(pos, n, size) ==
  ends_batch(pos, n, size) /\ batch_start(pos, size) + size < n

\* the calls of time.sleep made from the turn for the record at pos on
sleeps_after(pos, n, size) ==
  << [after |-> pos, ms |-> EmailDelayMs] >>
  \o (IF batch_delay(pos, n, size)
      THEN << [after |-> pos, ms |-> BatchDelayMs] >> ELSE << >>)

\* external calls of this run that failed so far: rejected deliveries and
\* status writes that left an attempted record 'created'
faults(log, table) ==
  Cardinality({i \in DOMAIN log : ~ log[i].accepted})
  + Cardinality({i \in DOMAIN log : table[log[i].campaign_id].status = "created"})

\* one turn of the inner loop of _send_email_batch: _send_individual_email
\* returns True when the delivery service accepted the message and False on
\* ApiException or any other error; then the status is written and the loop
\* sleeps
send_individual_email(transport_ok, write_ok) ==
  /\ pc = "send_email_batch"
  /\ dispatch.pos <= Len(dispatch.records)
  /\ faults(transac_emails, campaigns) + (IF transport_ok THEN 0 ELSE 1)
       + (IF write_ok THEN 0 ELSE 1) <= MaxFaults
  /\ LET record == dispatch.records[dispatch.pos]
         success == transport_ok
     IN /\ sleeps' = sleeps \o sleeps_after(dispatch.pos, Len(dispatch.records),
                                            batch_size)
        /\ campaigns' = update_campaign_status(campaigns, record.campaign_id,
                                               IF success THEN "sent" ELSE "failed",
                                               write_ok)
        /\ dispatch' = [dispatch EXCEPT
                          !.sent_campaigns = sent_after(@, record, success),
                          !.pos = @ + 1]
        /\ transac_emails' = Append(transac_emails,
                                     [campaign_id |-> record.campaign_id,
                                      accepted |-> transport_ok])
  /\ UNCHANGED << store_vars, campaign_metrics, input_vars, pc, completed_steps, errors, caught,
                  weather_data, holiday_data, primary_holiday, targeted_customers, total_targeted, lookup_failed,
                  lifecycle_campaigns, generated_campaigns, grouped_campaigns,
                  campaigns_created, campaigns_sent, exc, result >>

\* --------------------------------------------------- group email sender
\* the keys of the mapping _personalize_template passes to str.format
GroupPersonalizations ==
  {"{customer_name}", "{vehicle_make}", "{vehicle_model}", "{warranty_end_date}",
   "{last_service_date}", "{service_interval}"}

\* templates of a group: one whose fields are all keys of the mapping, one
\* with a field that is not
GroupTemplates ==
  { [placeholders |-> {"{customer_name}", "{vehicle_make}"}],
    [placeholders |-> {"{customer_name}", "{service_due}"}] }

\* group['customers']: lists of distinct customers of the store
GroupCustomerLists ==
  { l \in UNION { [1..n -> CustomerIds] : n \in 1..MaxCustomers } :
      \A j, k \in DOMAIN l : l[j] = l[k] => j = k }

\* state['grouped_campaigns'] handed to GroupBasedEmailSender.process: one
\* group; has_id says whether the customer dictionaries carry the key 'id'
GroupedCampaigns ==
  { << [group_type |-> "location", customers |-> l, has_id |-> h,
        campaign_template |-> t] >> :
      l \in GroupCustomerLists, h \in BOOLEAN, t \in GroupTemplates }

\* _personalize_template: str.format(**personalization) raises KeyError for a
\* field that is not a key of the mapping
personalize_template_raises(template) ==
  ~ (template.placeholders \subseteq GroupPersonalizations)

\* what _create_group_campaign_record returns: the id of the inserted row, or
\* None (0 here) when the insert raised
group_campaign_id(table, db_ok) == IF db_ok THEN Len(table) + 1 ELSE 0

\* _update_campaign_metrics: UPDATE campaign_metrics SET emails_sent WHERE
\* campaign_id; a failing write is caught and logged; updates counts the
\* committed updates of a row
update_campaign_metrics(table, campaign_id, sent_count, write_ok) ==
  IF write_ok
  THEN [k \in 1..Len(table) |->
          IF table[k].campaign_id = campaign_id
          THEN [table[k] EXCEPT !.emails_sent = sent_count, !.updates = @ + 1]
          ELSE table[k]]
  ELSE table

\* GroupBasedEmailSender.process with a non-empty group list, up to the call
\* of _send_group_emails for the group in turn: _create_group_campaign_record
\* inserts one row for the whole group
group_sender_process(db_ok) ==
  /\ pc = "group_email_sending"
  /\ grouped_campaigns # << >>
  /\ completed_steps' = Append(completed_steps, step_name(wf, "group_email_sending"))
  /\ campaigns' = IF db_ok
                  THEN Append(campaigns, [campaign_id |-> Len(campaigns) + 1,
                                          customer_id |-> 0, status |-> "created"])
                  ELSE campaigns
  /\ campaign_metrics' =
       IF db_ok
       THEN Append(campaign_metrics,
                   [campaign_id |-> Len(campaigns) + 1,
                    customers_targeted |-> Len(grouped_campaigns[1].customers),
                    emails_sent |-> 0, updates |-> 0])
       ELSE campaign_metrics
  /\ dispatch' = [NoDispatch EXCEPT
                    !.campaign = 1,
                    !.records = [k \in 1..Len(grouped_campaigns[1].customers) |->
                                   [campaign_id |-> group_campaign_id(campaigns, db_ok),
                                    customer_id |-> grouped_campaigns[1].customers[k]]],
                    !.pos = 1]
  /\ pc' = "send_group_emails"
  /\ UNCHANGED << store_vars, input_vars, errors, caught, weather_data,
                  holiday_data, primary_holiday, targeted_customers, total_targeted, lookup_failed,
                  lifecycle_campaigns, generated_campaigns, grouped_campaigns,
                  campaigns_created, campaigns_sent, transac_emails, sleeps, exc, result >>

\* one turn of the loop of _send_group_emails: personalize, send, count,
\* link the customer to the campaign, sleep; an exception anywhere in the
\* turn goes to the except clause, which logs and continues with the next
\* customer
send_group_email(transport_ok) ==
  /\ pc = "send_group_emails"
  /\ dispatch.pos <= Len(dispatch.records)
  /\ LET group == grouped_campaigns[dispatch.campaign]
         record == dispatch.records[dispatch.pos]
         called == ~ personalize_template_raises(group.campaign_template)
         success == called /\ transport_ok
         raised == ~ called \/ (success /\ ~ group.has_id)
     IN /\ transac_emails' = IF called
                             THEN Append(transac_emails,
                                         [campaign_id |-> record.campaign_id,
                                          accepted |-> transport_ok])
                             ELSE transac_emails
        /\ dispatch' = [dispatch EXCEPT
                          !.sent_campaigns = sent_after(@, record, success),
                          !.pos = @ + 1]
        /\ sleeps' = IF raised THEN sleeps
                     ELSE Append(sleeps, [after |-> dispatch.pos, ms |-> EmailDelayMs])
  /\ UNCHANGED << store_vars, campaign_metrics, input_vars, campaigns, pc, completed_steps, errors, caught,
                  weather_data, holiday_data, primary_holiday, targeted_customers, total_targeted, lookup_failed,
                  lifecycle_campaigns, generated_campaigns, grouped_campaigns,
                  campaigns_created, campaigns_sent, exc, result >>

\* the loop of _send_group_emails is over: _update_campaign_metrics writes
\* sent_count and the status 'sent' in one transaction, _send_group_emails
\* returns sent_count and process stores the totals
send_group_emails_return(write_ok) ==
  /\ pc = "send_group_emails"
  /\ dispatch.pos > Len(dispatch.records)
  /\ LET campaign_id == IF dispatch.records = << >> THEN 0
                        ELSE dispatch.records[1].campaign_id
         sent_count == Len(dispatch.sent_campaigns)
     IN /\ campaign_metrics' =
             update_campaign_metrics(campaign_metrics, campaign_id, sent_count, write_ok)
        /\ campaigns' = update_campaign_status(campaigns, campaign_id, "sent", write_ok)
  /\ dispatch' = [dispatch EXCEPT
                    !.all_campaign_records = @ \o dispatch.records,
                    !.all_sent_campaigns = @ \o dispatch.sent_campaigns]
  /\ pc' = edge(wf, "group_email_sending")
  /\ UNCHANGED << store_vars, input_vars, completed_steps, errors, caught,
                  weather_data, holiday_data, primary_holiday, targeted_customers, total_targeted, lookup_failed,
                  lifecycle_campaigns, generated_campaigns, grouped_campaigns,
                  campaigns_created, campaigns_sent, transac_emails, sleeps, exc, result >>

\* _send_email_batch returns; process extends its lists and takes the next
\* campaign
send_email_batch_return ==
  /\ pc = "send_email_batch"
  /\ dispatch.pos > Len(dispatch.records)
  /\ dispatch' = [dispatch EXCEPT
                    !.all_campaign_records = @ \o dispatch.records,
                    !.all_sent_campaigns = @ \o dispatch.sent_campaigns,
                    !.campaign = @ + 1]
  /\ pc' = "process_campaigns"
  /\ UNCHANGED << store_vars, campaign_metrics, input_vars, campaigns, completed_steps, errors, caught,
                  weather_data, holiday_data, primary_holiday, targeted_customers, total_targeted, lookup_failed,
                  lifecycle_campaigns, generated_campaigns, grouped_campaigns,
                  campaigns_created, campaigns_sent, transac_emails, sleeps, exc, result >>

\* the tail of EmailSenderAgent.process: the state gets the lists
email_sending_done ==
  /\ pc = "process_campaigns"
  /\ dispatch.campaign > Len(generated_campaigns)
  /\ campaigns_created' = dispatch.all_campaign_records
  /\ campaigns_sent' = dispatch.all_sent_campaigns
  /\ pc' = edge(wf, "email_sending")
  /\ UNCHANGED << store_vars, campaign_metrics, input_vars, campaigns, completed_steps, errors, caught,
                  weather_data, holiday_data, primary_holiday, targeted_customers, total_targeted, lookup_failed,
                  lifecycle_campaigns, generated_campaigns, grouped_campaigns,
                  dispatch, transac_emails, sleeps, exc, result >>

\* ---------------------------------------------------------------- finalize
\* _finalize_node: marks the step, logs the totals, returns the state
finalize_node ==
  /\ pc = "finalize"
  /\ completed_steps' = Append(completed_steps, step_name(wf, "finalize"))
  /\ pc' = edge(wf, "finalize")
  /\ UNCHANGED << store_vars, campaign_metrics, input_vars, campaigns, errors, caught, weather_data,
                  holiday_data, primary_holiday, targeted_customers, total_targeted, lookup_failed, lifecycle_campaigns,
                  generated_campaigns, grouped_campaigns, campaigns_created,
                  campaigns_sent, dispatch, transac_emails, sleeps, exc, result >>

\* workflow.invoke raises before the next node runs (an exception that no
\* agent's try/except covers)
GraphNodes == {"customer_targeting", "weather_analysis", "holiday_analysis",
               "vehicle_lifecycle_analysis", "campaign_generation", "email_sending",
               "group_campaign_generation", "group_email_sending", "finalize"}

invoke_raises ==
  /\ pc \in GraphNodes
  /\ pc' = "raised"
  /\ exc' = "Workflow failed"
  /\ UNCHANGED << store_vars, campaign_metrics, input_vars, campaigns, completed_steps, errors, caught,
                  weather_data, holiday_data, primary_holiday, targeted_customers, total_targeted, lookup_failed,
                  lifecycle_campaigns, generated_campaigns, grouped_campaigns,
                  campaigns_created, campaigns_sent, dispatch, transac_emails, sleeps, result >>

\* ------------------------------------------------------------- run result
\* WorkflowResult (pydantic): these fields have no default
WorkflowResultRequired ==
  {"workflow_id", "status", "campaigns_created", "campaigns_sent",
   "total_targeted", "execution_time", "summary"}

\* WorkflowResult(**kwargs): validation fails when a required field is missing
WorkflowResult(kwargs) ==
  IF WorkflowResultRequired \subseteq DOMAIN kwargs
  THEN [kind |-> "returned", value |-> kwargs]
  ELSE [kind |-> "raised", error |-> "ValidationError"]

\* a status that ignores the error list
result_status_ignores_errors(final_errors) == "success"

\* status of CampaignWorkflow.run_campaign's result
result_status(final_errors) ==
  IF final_errors = << >> THEN "success" ELSE "partial_success"

\* a result whose status is 'partial_success' only when something was sent
success_result_needs_sends(final_errors, created, sent, targeted) ==
  WorkflowResult([workflow_id |-> "uuid",
                  status |-> IF final_errors = << >> THEN "success"
                             ELSE IF Len(sent) >= 1 THEN "partial_success"
                             ELSE "failed",
                  campaigns_created |-> Len(created),
                  campaigns_sent |-> Len(sent),
                  total_targeted |-> targeted,
                  errors |-> final_errors,
                  execution_time |-> 0,
                  summary |-> "summary"])

\* the result CampaignWorkflow.run_campaign builds from the final state
success_result(final_errors, created, sent, targeted) ==
  WorkflowResult([workflow_id |-> "uuid",
                  status |-> result_status(final_errors),
                  campaigns_created |-> Len(created),
                  campaigns_sent |-> Len(sent),
                  total_targeted |-> targeted,
                  errors |-> final_errors,
                  execution_time |-> 0,
                  summary |-> "summary"])

\* an except clause that keeps the targeted count of the aborted run
failed_result_keeps_targeted(e) ==
  WorkflowResult([workflow_id |-> "uuid",
                  status |-> "failed",
                  campaigns_created |-> 0,
                  campaigns_sent |-> 0,
                  total_targeted |-> total_targeted,
                  errors |-> << e >>,
                  execution_time |-> 0,
                  summary |-> "Workflow failed"])

\* the result CampaignWorkflow.run_campaign builds in its except clause
failed_result(e) ==
  WorkflowResult([workflow_id |-> "uuid",
                  status |-> "failed",
                  campaigns_created |-> 0,
                  campaigns_sent |-> 0,
                  total_targeted |-> 0,
                  errors |-> << e >>,
                  execution_time |-> 0,
                  summary |-> "Workflow failed"])

\* the keyword arguments EfficientCampaignWorkflow.run_campaign passes
efficient_result(success, e) ==
  WorkflowResult([success |-> success,
                  workflow_id |-> "uuid",
                  execution_time |-> 0,
                  customers_targeted |-> 0,
                  campaigns_created |-> 0,
                  campaigns_sent |-> 0,
                  error_message |-> e,
                  campaign_details |-> << >>])

\* run_campaign after workflow.invoke returned: the try block builds the
\* result; an exception there is handled by the except clause, and an
\* exception in the except clause leaves run_campaign
run_campaign_return ==
  /\ pc = "END"
  /\ LET built == IF wf = "campaign"
                  THEN success_result(errors, campaigns_created, campaigns_sent,
                                      total_targeted)
                  ELSE efficient_result(TRUE, "")
         handled == IF wf = "campaign"
                    THEN failed_result(built.error)
                    ELSE efficient_result(FALSE, built.error)
     IN result' = IF built.kind = "returned" THEN built ELSE handled
  /\ pc' = "done"
  /\ UNCHANGED << store_vars, campaign_metrics, input_vars, campaigns, completed_steps, errors, caught,
                  weather_data, holiday_data, primary_holiday, targeted_customers, total_targeted, lookup_failed,
                  lifecycle_campaigns, generated_campaigns, grouped_campaigns,
                  campaigns_created, campaigns_sent, dispatch, transac_emails, sleeps, exc >>

\* run_campaign after workflow.invoke raised: the except clause
run_campaign_except ==
  /\ pc = "raised"
  /\ result' = IF wf = "campaign" THEN failed_result(exc)
               ELSE efficient_result(FALSE, exc)
  /\ pc' = "done"
  /\ UNCHANGED << store_vars, campaign_metrics, input_vars, campaigns, completed_steps, errors, caught,
                  weather_data, holiday_data, primary_holiday, targeted_customers, total_targeted, lookup_failed,
                  lifecycle_campaigns, generated_campaigns, grouped_campaigns,
                  campaigns_created, campaigns_sent, dispatch, transac_emails, sleeps, exc >>

\* ------------------------------------------------------------------- Next
Outcomes == {"ok", "no_data", "exception"}

Next ==
  \/ \E loc \in Locations, trigger \in Triggers : run_campaign(loc, trigger)
  \/ targeting_node
  \/ route
  \/ \E outcome \in Outcomes : weather_node(outcome)
  \/ \E outcome \in Outcomes : holiday_node(outcome)
  \/ vehicle_lifecycle_node
  \/ \E response \in LLMResponses, raised \in BOOLEAN :
        campaign_generation_node(response, raised)
  \/ group_campaign_node
  \/ group_email_node
  \/ email_sending_node
  \/ \E db_ok \in BOOLEAN : create_campaign_records(db_ok)
  \/ \E transport_ok \in BOOLEAN, write_ok \in BOOLEAN :
        send_individual_email(transport_ok, write_ok)
  \/ send_email_batch_return
  \/ email_sending_done
  \/ finalize_node
  \/ invoke_raises
  \/ run_campaign_return
  \/ run_campaign_except

Spec == Init /\ [][Next]_vars

\* the same program started over a deployment's store
SpecDeployed == InitDeployed /\ [][Next]_vars

\* GroupBasedEmailSender.process called with a state that holds one group
InitGroupSender ==
  /\ wf = "efficient"
  /\ customers \in [CustomerIds -> CustomerRows]
  /\ batch_size \in {1, DefaultBatchSize}
  /\ campaigns = << >>
  /\ campaign_metrics = << >>
  /\ pc = "group_email_sending"
  /\ location \in Locations
  /\ campaign_trigger = "weather"
  /\ completed_steps = << >>
  /\ errors = << >>
  /\ caught = {}
  /\ weather_data = FALSE
  /\ holiday_data = FALSE
  /\ upcoming_holidays = << >>
  /\ primary_holiday = << >>
  /\ targeted_customers = << >>
  /\ total_targeted = 0
  /\ lookup_failed = FALSE
  /\ lifecycle_campaigns = << >>
  /\ generated_campaigns = << >>
  /\ grouped_campaigns \in GroupedCampaigns
  /\ campaigns_created = << >>
  /\ campaigns_sent = << >>
  /\ dispatch = NoDispatch
  /\ transac_emails = << >>
  /\ sleeps = << >>
  /\ exc = ""
  /\ result = NoResult

NextGroupSender ==
  \/ \E db_ok \in BOOLEAN : group_sender_process(db_ok)
  \/ \E transport_ok \in BOOLEAN : send_group_email(transport_ok)
  \/ \E write_ok \in BOOLEAN : send_group_emails_return(write_ok)

SpecGroupSender == InitGroupSender /\ [][NextGroupSender]_vars

\* GroupBasedCampaignGenerator.process called in a lifecycle run with a
\* non-empty list of targeted customers
InitGroupGenerator ==
  /\ wf = "efficient"
  /\ customers \in [CustomerIds -> CustomerRows]
  /\ batch_size = DefaultBatchSize
  /\ campaigns = << >>
  /\ campaign_metrics = << >>
  /\ pc = "group_campaign_generation"
  /\ location \in Locations
  /\ campaign_trigger = "lifecycle"
  /\ completed_steps = << "targeting" >>
  /\ errors = << >>
  /\ caught = {}
  /\ weather_data = FALSE
  /\ holiday_data = FALSE
  /\ upcoming_holidays = << >>
  /\ primary_holiday = << >>
  /\ targeted_customers \in GroupedCustomerLists
  /\ total_targeted = Len(targeted_customers)
  /\ lookup_failed = FALSE
  /\ lifecycle_campaigns = << >>
  /\ generated_campaigns = << >>
  /\ grouped_campaigns = << >>
  /\ campaigns_created = << >>
  /\ campaigns_sent = << >>
  /\ dispatch = NoDispatch
  /\ transac_emails = << >>
  /\ sleeps = << >>
  /\ exc = ""
  /\ result = NoResult

NextGroupGenerator == create_service_groups

SpecGroupGenerator == InitGroupGenerator /\ [][NextGroupGenerator]_vars

\* VehicleLifecycleAgent.process called in a lifecycle run with one targeted
\* customer
InitLifecycle ==
  /\ wf = "campaign"
  /\ customers = [i \in CustomerIds |-> [preferred_location |-> "Mumbai", vehicles |-> 1]]
  /\ batch_size = DefaultBatchSize
  /\ campaigns = << >>
  /\ campaign_metrics = << >>
  /\ pc = "vehicle_lifecycle_analysis"
  /\ location \in Locations
  /\ campaign_trigger = "lifecycle"
  /\ completed_steps = << "customer_targeting" >>
  /\ errors = << >>
  /\ caught = {}
  /\ weather_data = FALSE
  /\ holiday_data = FALSE
  /\ upcoming_holidays = << >>
  /\ primary_holiday = << >>
  /\ targeted_customers \in { << c >> : c \in LifecycleCustomers }
  /\ total_targeted = Len(targeted_customers)
  /\ lookup_failed = FALSE
  /\ lifecycle_campaigns = << >>
  /\ generated_campaigns = << >>
  /\ grouped_campaigns = << >>
  /\ campaigns_created = << >>
  /\ campaigns_sent = << >>
  /\ dispatch = NoDispatch
  /\ transac_emails = << >>
  /\ sleeps = << >>
  /\ exc = ""
  /\ result = NoResult

NextLifecycle == analyze_lifecycle

SpecLifecycle == InitLifecycle /\ [][NextLifecycle]_vars

\* TargetingAgent.process called at the start of a run over a store whose
\* vehicles rows are known
InitSegmentation ==
  /\ wf = "campaign"
  /\ customers \in ServiceStores
  /\ batch_size = DefaultBatchSize
  /\ campaigns = << >>
  /\ campaign_metrics = << >>
  /\ pc = "customer_targeting"
  /\ location \in Locations
  /\ campaign_trigger \in {"weather", "lifecycle", "scheduled"}
  /\ completed_steps = << >>
  /\ errors = << >>
  /\ caught = {}
  /\ weather_data = FALSE
  /\ holiday_data = FALSE
  /\ upcoming_holidays = << >>
  /\ primary_holiday = << >>
  /\ targeted_customers = << >>
  /\ total_targeted = 0
  /\ lookup_failed = FALSE
  /\ lifecycle_campaigns = << >>
  /\ generated_campaigns = << >>
  /\ grouped_campaigns = << >>
  /\ campaigns_created = << >>
  /\ campaigns_sent = << >>
  /\ dispatch = NoDispatch
  /\ transac_emails = << >>
  /\ sleeps = << >>
  /\ exc = ""
  /\ result = NoResult

NextSegmentation == segment_store

SpecSegmentation == InitSegmentation /\ [][NextSegmentation]_vars

\* HolidayAgent.process called in a holiday run over the upcoming holidays
\* of the calendar
InitHoliday ==
  /\ wf = "campaign"
  /\ customers = [i \in CustomerIds |-> [preferred_location |-> "Mumbai", vehicles |-> 1]]
  /\ batch_size = DefaultBatchSize
  /\ campaigns = << >>
  /\ campaign_metrics = << >>
  /\ pc = "holiday_analysis"
  /\ location \in Locations
  /\ campaign_trigger = "holiday"
  /\ completed_steps = << "customer_targeting" >>
  /\ errors = << >>
  /\ caught = {}
  /\ weather_data = FALSE
  /\ holiday_data = FALSE
  /\ upcoming_holidays \in UpcomingHolidayLists
  /\ primary_holiday = << >>
  /\ targeted_customers = << >>
  /\ total_targeted = 0
  /\ lookup_failed = FALSE
  /\ lifecycle_campaigns = << >>
  /\ generated_campaigns = << >>
  /\ grouped_campaigns = << >>
  /\ campaigns_created = << >>
  /\ campaigns_sent = << >>
  /\ dispatch = NoDispatch
  /\ transac_emails = << >>
  /\ sleeps = << >>
  /\ exc = ""
  /\ result = NoResult

NextHoliday == holiday_process

SpecHoliday == InitHoliday /\ [][NextHoliday]_vars

\* ================================================================ properties

\* ------------------------------------------------------------------- C1
\* the complete stage sequences the two graphs can produce, as the names the
\* nodes append to completed_steps
StageOrders(w) ==
  IF w = "campaign"
  THEN { << "customer_targeting", x, "campaign_generation", "email_sending", "finalize" >> :
            x \in {"weather_analysis", "holiday_analysis", "vehicle_lifecycle_analysis"} }
  ELSE { << "targeting", x, "group_campaigns", "group_emails", "finalize" >> :
            x \in {"weather", "holiday"} }
       \cup { << "targeting", "group_campaigns", "group_emails", "finalize" >> }

\* the five-stage sequences with exactly one context stage
FiveStageOrders(w) ==
  IF w = "campaign"
  THEN StageOrders(w)
  ELSE { << "targeting", x, "group_campaigns", "group_emails", "finalize" >> :
            x \in {"weather", "holiday", "lifecycle"} }

IsPrefix(s, t) == Len(s) <= Len(t) /\ SubSeq(t, 1, Len(s)) = s

\* C1 as stated: every finished run executed targeting, exactly one of
\* weather/holiday/lifecycle, content generation, dispatch and finalize, in
\* that order, none twice and none skipped.
C1_EveryRunHasFiveStages ==
  pc = "done" => completed_steps \in FiveStageOrders(wf)

\* C1 amended: at every moment the executed stages are an initial part of
\* the order targeting, context stage, content generation, dispatch,
\* finalize, so targeting is first and no stage runs twice or out of order;
\* the sequence is complete whenever no exception escaped the graph; the
\* per-record workflow has exactly one context stage, the group workflow has
\* the weather or the holiday stage, or none at all for the triggers
\* 'lifecycle' and 'scheduled'.
C1_StagesInOrder ==
  /\ \E t \in StageOrders(wf) : IsPrefix(completed_steps, t)
  /\ (pc = "done" /\ exc = "") => completed_steps \in StageOrders(wf)
  /\ (pc = "done" /\ exc = "" /\ wf = "efficient")
       => (Len(completed_steps) = 4 <=> campaign_trigger \in {"lifecycle", "scheduled"})

\* a finished group-workflow run that had no context stage
C1_Witness ==
  /\ pc = "done"
  /\ wf = "efficient"
  /\ exc = ""
  /\ completed_steps = << "targeting", "group_campaigns", "group_emails", "finalize" >>

\* ------------------------------------------------------------------- C2
\* C2: routing after targeting is total: 'weather' leads to the weather
\* stage, 'holiday' to the holiday stage, and for every trigger string the
\* key the router returns has a next stage in the graph.
C2_RouterKeyHasNextStage ==
  pc = "route" =>
    /\ router(wf, campaign_trigger) \in DOMAIN conditional_edges(wf)
    /\ campaign_trigger = "weather" =>
         conditional_edges(wf)[router(wf, campaign_trigger)] = "weather_analysis"
    /\ campaign_trigger = "holiday" =>
         conditional_edges(wf)[router(wf, campaign_trigger)] = "holiday_analysis"

\* ------------------------------------------------------------------- C3
\* C3: run_campaign never raises; whatever happened in the stages, it gives
\* back a result value with status, targeted count, campaigns created,
\* campaigns sent and the error list.
C3_RunCampaignReturnsResult ==
  pc = "done" =>
    /\ result.kind = "returned"
    /\ {"status", "total_targeted", "campaigns_created", "campaigns_sent", "errors"}
          \subseteq DOMAIN result.value

\* ------------------------------------------------------------------- C4
\* C4: when no exception escaped the graph, the returned status is 'success'
\* exactly when the final error list is empty and 'partial_success' exactly
\* when it is not, also when nothing was sent.
C4_StatusFollowsErrors ==
  (result.kind = "returned" /\ exc = "") =>
    /\ result.value.status = "success" <=> errors = << >>
    /\ result.value.status = "partial_success" <=> errors # << >>

\* a run with a recorded error and nothing sent, reported 'partial_success'
C4_Witness ==
  /\ result.kind = "returned"
  /\ exc = ""
  /\ errors # << >>
  /\ result.value.campaigns_sent = 0
  /\ result.value.status = "partial_success"

\* ------------------------------------------------------------------- C5
\* C5 as stated: 'partial_success' is only reported by a run that recorded
\* errors and sent at least one message.
C5_PartialSuccessNeedsSends ==
  (result.kind = "returned" /\ result.value.status = "partial_success") =>
    /\ result.value.errors # << >>
    /\ result.value.campaigns_sent >= 1

\* C5 amended: 'partial_success' is only reported by a run that recorded
\* errors; the number of messages sent is not consulted, so a run with
\* recorded errors and zero sends is reported as 'partial_success'.
C5_PartialSuccessNeedsErrorsOnly ==
  result.kind = "returned" =>
    /\ result.value.status = "partial_success" => result.value.errors # << >>
    /\ (exc = "" /\ result.value.errors # << >> /\ result.value.campaigns_sent = 0)
         => result.value.status = "partial_success"

\* a run whose dispatch failed before anything was sent, reported
\* 'partial_success' with customers targeted
C5_Witness ==
  /\ result.kind = "returned"
  /\ result.value.status = "partial_success"
  /\ result.value.total_targeted >= 1
  /\ result.value.campaigns_created = 0
  /\ \E i \in DOMAIN result.value.errors : result.value.errors[i] = "EmailSenderAgent"

\* ------------------------------------------------------------------- C6
\* C6: when an exception escapes the graph, CampaignWorkflow.run_campaign
\* returns status 'failed' with campaigns_created, campaigns_sent and
\* total_targeted all 0 and the exception's message as the only error; status
\* 'failed' is returned in no other case.
C6_FailedExactlyOnEscape ==
  (wf = "campaign" /\ pc = "done") =>
    /\ result.kind = "returned"
    /\ exc # "" => /\ result.value.status = "failed"
                   /\ result.value.campaigns_created = 0
                   /\ result.value.campaigns_sent = 0
                   /\ result.value.total_targeted = 0
                   /\ result.value.errors = << exc >>
    /\ result.value.status = "failed" => exc # ""

\* a run aborted after customers had been targeted, reported 'failed'
C6_Witness ==
  /\ wf = "campaign"
  /\ pc = "done"
  /\ exc = "Workflow failed"
  /\ total_targeted >= 1
  /\ result.kind = "returned"
  /\ result.value.status = "failed"

\* ------------------------------------------------------------------- C7
\* C7: a failure caught inside a stage never aborts the run: the stage whose
\* agent caught it has an entry in the error list, and a run from which no
\* exception escaped has executed finalize.
C7_CaughtFailureIsRecorded ==
  /\ \A a \in caught : \E i \in DOMAIN errors : errors[i] = a
  /\ (pc = "done" /\ exc = "") =>
       \E i \in DOMAIN completed_steps : completed_steps[i] = "finalize"

C9_BatchIsolatesFailures ==
  (pc = "send_email_batch" /\ dispatch.pos > Len(dispatch.records)) =>
    LET refused(r) == \E i \in DOMAIN transac_emails :
                         /\ transac_emails[i].campaign_id = r.campaign_id
                         /\ ~ transac_emails[i].accepted
        accepted(r) == ~ refused(r)
    IN /\ \A k \in DOMAIN dispatch.records :
            \E i \in DOMAIN transac_emails :
               transac_emails[i].campaign_id = dispatch.records[k].campaign_id
       /\ dispatch.sent_campaigns = SelectSeq(dispatch.records, accepted)
       /\ \A k \in DOMAIN dispatch.records :
            refused(dispatch.records[k]) =>
               campaigns[dispatch.records[k].campaign_id].status = "failed"

\* ------------------------------------------------------------------ C10
\* C10: a campaign record is inserted with status 'created', a status other
\* than 'created' never changes again, and once the dispatch stage is over
\* no record whose send was attempted still has status 'created'.
C10_OneTerminalTransition ==
  /\ [][ /\ \A k \in DOMAIN campaigns' :
              k \notin DOMAIN campaigns => campaigns'[k].status = "created"
         /\ \A k \in DOMAIN campaigns :
              /\ k \in DOMAIN campaigns'
              /\ campaigns[k].status # "created" =>
                    campaigns'[k].status = campaigns[k].status ]_vars
  /\ [](pc \in {"finalize", "END", "done"} =>
          \A i \in DOMAIN transac_emails :
             campaigns[transac_emails[i].campaign_id].status # "created")

\* ------------------------------------------------------------------ C11
\* C11: while _send_email_batch runs, the calls made to the delivery service
\* are exactly one per record of the part of the input list gone through so
\* far, in input order (no retry, no skipped record), and the list to be
\* returned is the subsequence of those records whose call succeeded.
C11_EachRecordAttemptedOnceInOrder ==
  pc = "send_email_batch" =>
    LET attempted == SubSeq(dispatch.records, 1, dispatch.pos - 1)
        succeeded(r) == \E i \in DOMAIN transac_emails :
                           /\ transac_emails[i].campaign_id = r.campaign_id
                           /\ transac_emails[i].accepted
    IN /\ Len(transac_emails) = Len(attempted)
       /\ \A k \in DOMAIN attempted :
            transac_emails[k].campaign_id = attempted[k].campaign_id
       /\ dispatch.sent_campaigns = SelectSeq(attempted, succeeded)

\* a finished batch of two records or more whose first send failed and whose
\* last send succeeded
C11_Witness ==
  /\ pc = "send_email_batch"
  /\ dispatch.pos > Len(dispatch.records)
  /\ Len(dispatch.records) >= 2
  /\ ~ transac_emails[1].accepted
  /\ transac_emails[Len(transac_emails)].accepted
  /\ Len(dispatch.sent_campaigns) >= 1

\* ------------------------------------------------------------------ C12
\* C12: once the group stage has run on a non-empty targeted set, whatever
\* the trigger, every targeted customer is a member of exactly one group and
\* the groups hold nobody else.
C12_GroupsPartitionTargeted ==
  (pc = "group_email_sending" /\ targeted_customers # << >>) =>
    /\ \A k \in DOMAIN targeted_customers :
         Cardinality({ g \in DOMAIN grouped_campaigns :
                         \E m \in DOMAIN grouped_campaigns[g].customers :
                            grouped_campaigns[g].customers[m].customer_id
                              = targeted_customers[k].customer_id }) = 1
    /\ \A g \in DOMAIN grouped_campaigns :
         \A m \in DOMAIN grouped_campaigns[g].customers :
            \E k \in DOMAIN targeted_customers :
               targeted_customers[k].customer_id
                 = grouped_campaigns[g].customers[m].customer_id

\* ------------------------------------------------------------------ C13
\* C13: once the group stage has run on a non-empty targeted set, there are
\* as many groups as distinct grouping keys among the targeted customers
\* (distinct preferred_location values for weather and holiday, at least the
\* one service-need key present for lifecycle), and each group carries one
\* content template.
C13_OneGroupPerKey ==
  (pc = "group_email_sending" /\ targeted_customers # << >>) =>
    /\ campaign_trigger \in {"weather", "holiday"} =>
         Len(grouped_campaigns) =
           Cardinality({ customers[targeted_customers[k].customer_id].preferred_location :
                           k \in DOMAIN targeted_customers })
    /\ campaign_trigger = "lifecycle" => Len(grouped_campaigns) >= 1
    /\ \A g \in DOMAIN grouped_campaigns :
         "campaign_template" \in DOMAIN grouped_campaigns[g]

\* ------------------------------------------------------------------ C14
\* C14: whatever the content-generation service does (error, unparsable
\* answer, answer without the template fields), every generated campaign has
\* a title, a subject line, a body and a call-to-action, and a run from which
\* no exception escaped is not reported 'failed'.
C14_EveryCampaignHasTemplate ==
  /\ \A k \in DOMAIN generated_campaigns :
       TemplateFields \subseteq generated_campaigns[k].fields
  /\ (wf = "campaign" /\ pc = "done" /\ exc = "") =>
       (result.kind = "returned" /\ result.value.status # "failed")

\* ------------------------------------------------------------------ C15
\* C15: whatever placeholders a template contains, no placeholder is left in
\* the personalized subject and content of a campaign record.
C15_NoPlaceholderLeft ==
  \A k \in DOMAIN dispatch.records :
     dispatch.records[k].personalized_content.placeholders = {}

\* ---------------------------------------------------------------- C16
\* C16: a run against a store that holds the records of an earlier run
\* leaves every one of those records as it was (no status update touches
\* them) and adds only records whose campaign_id is fresh.
C16_PriorRecordsUntouched ==
  LET prior == Len(PreviousRun)
      ids(table) == {table[k].campaign_id : k \in DOMAIN table}
  IN /\ Len(campaigns) >= prior
     /\ SubSeq(campaigns, 1, prior) = PreviousRun
     /\ \A k \in (prior + 1)..Len(campaigns) :
          /\ campaigns[k].campaign_id \notin ids(PreviousRun)
          /\ \A j \in (prior + 1)..Len(campaigns) :
               campaigns[j].campaign_id = campaigns[k].campaign_id => j = k

\* a finished run over the earlier run's store that sent to a customer who
\* has an earlier record still 'created' and failed for one whose earlier
\* record was sent or failed
C16_Witness ==
  /\ result # NoResult
  /\ campaigns # PreviousRun
  /\ SubSeq(campaigns, 1, Len(PreviousRun)) = PreviousRun
  /\ \E k \in DOMAIN campaigns :
       /\ k > Len(PreviousRun)
       /\ campaigns[k].status = "sent"
       /\ campaigns[k].customer_id = PreviousRun[3].customer_id
  /\ \E k \in DOMAIN campaigns :
       /\ k > Len(PreviousRun)
       /\ campaigns[k].status = "failed"

\* ---------------------------------------------------------------- C17
\* C17: when the customer lookup of the segmentation stage fails,
\* segmentation returns an empty customer list, the failure is recorded in
\* the run's error list and no exception passes the segmentation boundary.
C17_LookupFailureIsRecorded ==
  lookup_failed =>
    /\ targeted_customers = << >>
    /\ total_targeted = 0
    /\ "TargetingAgent" \notin caught
    /\ \E k \in DOMAIN errors : errors[k] = "TargetingAgent"

\* ---------------------------------------------------------------- C18
\* the customers of the store whose preferred location is the requested one
AtLocation == { i \in CustomerIds : customers[i].preferred_location = location }

\* the (customer, vehicle) combinations of the customers at the location; a
\* customer without vehicles counts once
AtLocationVehicles ==
  { cv \in AtLocation \X (1..MaxVehicles) :
      cv[2] <= customers[cv[1]].vehicles \/ cv[2] = 1 }

\* a run of the weather path of CampaignWorkflow that returned its result
WeatherRunReturned ==
  /\ wf = "campaign"
  /\ campaign_trigger = "weather"
  /\ result.kind = "returned"
  /\ result.value.status # "failed"

C20_DispatchIsRateLimited ==
  pc \in {"send_email_batch", "send_group_emails"} =>
    LET n == Len(dispatch.records)
        attempted == dispatch.pos - 1
        delays(k, ms) == { i \in DOMAIN sleeps : sleeps[i].after = k /\ sleeps[i].ms = ms }
    IN /\ \A k \in 1..attempted :
            /\ Cardinality(delays(k, EmailDelayMs)) = 1
            /\ Cardinality(delays(k, BatchDelayMs)) =
                 (IF k % batch_size = 0 /\ k < n THEN 1 ELSE 0)
       /\ \A i \in DOMAIN sleeps : sleeps[i].after \in 1..attempted
       /\ \A i, j \in DOMAIN sleeps :
            i < j => /\ sleeps[i].after <= sleeps[j].after
                     /\ sleeps[i].after = sleeps[j].after =>
                          (sleeps[i].ms = EmailDelayMs /\ sleeps[j].ms = BatchDelayMs)

\* ---------------------------------------------------------------- C21
\* the key the stated priority gives a customer's flags
PrimaryServiceNeed(flags) ==
  CASE flags.warranty_expiring -> "warranty_expiring"
    [] ~ flags.warranty_expiring /\ flags.service_overdue -> "service_overdue"
    [] ~ flags.warranty_expiring /\ ~ flags.service_overdue /\ flags.high_mileage ->
         "high_mileage"
    [] OTHER -> "general_service"

\* C21: once lifecycle grouping has run over the targeted customers, every
\* customer is in exactly one group, whose key is the one the priority
\* warranty_expiring > service_overdue > high_mileage > general_service gives
\* that customer, and there are at most four groups.
C21_ServiceNeedKeyByPriority ==
  (pc = "group_email_sending" /\ campaign_trigger = "lifecycle"
   /\ targeted_customers # << >>) =>
    /\ Len(grouped_campaigns) <= 4
    /\ \A k \in DOMAIN targeted_customers :
         LET c == targeted_customers[k]
             holds(g) == \E m \in DOMAIN grouped_campaigns[g].customers :
                            grouped_campaigns[g].customers[m] = c
         IN /\ \E g \in DOMAIN grouped_campaigns : holds(g)
            /\ \A g \in DOMAIN grouped_campaigns :
                 holds(g) => grouped_campaigns[g].group_type =
                               PrimaryServiceNeed(c.vehicle)

\* ---------------------------------------------------------------- C22
\* the customer is a member of the cohort after the analysis
InCohort(c, cohort) ==
  \E k \in DOMAIN lifecycle_campaigns :
    /\ lifecycle_campaigns[k].campaign_type = cohort
    /\ \E m \in DOMAIN lifecycle_campaigns[k].target_customers :
         lifecycle_campaigns[k].target_customers[m] = c

\* the lifecycle analysis ran over the customers without raising
LifecycleAnalysed ==
  /\ pc = "campaign_generation"
  /\ campaign_trigger = "lifecycle"
  /\ "VehicleLifecycleAgent" \notin caught

\* C22: after a lifecycle analysis that did not raise, a vehicle with
\* mileage >= 100,000 is in 'ultra_high_mileage', a vehicle with
\* mileage >= 50,000 is in 'high_mileage', and so a vehicle with
\* mileage >= 100,000 is in both.
C22_MileageCohortsBothFire ==
  LifecycleAnalysed =>
    \A k \in DOMAIN targeted_customers :
      LET c == targeted_customers[k]
      IN /\ c.vehicle.mileage >= 100000 => InCohort(c, "ultra_high_mileage")
         /\ c.vehicle.mileage >= 50000 => InCohort(c, "high_mileage")

\* ---------------------------------------------------------------- C23
\* C23: after the lifecycle analysis of a lifecycle run, every targeted
\* customer whose vehicle has days_since_service > 540, mileage > 100,000
\* and age > 7 years is a member of 'service_due', 'ultra_high_mileage' and
\* 'veteran_owners' at the same time.
C23_CohortsOverlap ==
  (pc = "campaign_generation" /\ campaign_trigger = "lifecycle") =>
    \A k \in DOMAIN targeted_customers :
      LET c == targeted_customers[k]
      IN (/\ days_since_service(c.vehicle) > 540
          /\ c.vehicle.mileage > 100000
          /\ ~ age_at_most(c.vehicle.age_days, 7)) =>
           /\ InCohort(c, "service_due")
           /\ InCohort(c, "ultra_high_mileage")
           /\ InCohort(c, "veteran_owners")

\* ---------------------------------------------------------------- C24
\* C24: after a lifecycle analysis that did not raise, a vehicle is in
\* 'warranty_expiring' exactly when it has a warranty end date with
\* 0 <= days_until_warranty_expiry <= 180.
C24_WarrantyExpiringWithin180Days ==
  LifecycleAnalysed =>
    \A k \in DOMAIN targeted_customers :
      LET c == targeted_customers[k]
      IN InCohort(c, "warranty_expiring") <=>
           (/\ c.vehicle.has_warranty_end
            /\ 0 <= c.vehicle.warranty_days
            /\ c.vehicle.warranty_days <= 180)

\* ---------------------------------------------------------------- C25
\* C25: after segmentation of a 'lifecycle' or 'scheduled' run, whatever the
\* requested location, a customer is in the result if and only if at least
\* one of their vehicles meets at least one of the vehicle predicates, and
\* no customer is in the result twice.
C25_ServiceNeedIgnoresLocation ==
  (pc = "route" /\ campaign_trigger \in {"lifecycle", "scheduled"}) =>
    /\ \A i \in CustomerIds :
         (\E k \in DOMAIN targeted_customers : targeted_customers[k].customer_id = i)
         <=> (\E v \in DOMAIN customers[i].vehicle_rows :
                \E p \in ServicePredicates : p \in customers[i].vehicle_rows[v])
    /\ \A j, k \in DOMAIN targeted_customers :
         targeted_customers[j].customer_id = targeted_customers[k].customer_id => j = k

\* a 'scheduled' run that returned a customer of another location whose two
\* vehicles both match, and left out a customer at the requested location
C25_Witness ==
  /\ pc = "route"
  /\ campaign_trigger = "scheduled"
  /\ \E k \in DOMAIN targeted_customers :
       LET c == customers[targeted_customers[k].customer_id]
       IN /\ c.preferred_location # location
          /\ Len(c.vehicle_rows) = 2
          /\ c.vehicle_rows[1] # {}
          /\ Cardinality(c.vehicle_rows[2]) = 2
  /\ \E i \in CustomerIds :
       /\ customers[i].preferred_location = location
       /\ \A k \in DOMAIN targeted_customers : targeted_customers[k].customer_id # i

\* ---------------------------------------------------------------- C26
\* C26: once the weather stage of a weather run has ended without a weather
\* fact (the lookup failed), the run's error list holds an entry of the
\* weather stage, and a result returned for the run does not have status
\* 'success'.
C26_FailedLookupIsRecorded ==
  (/\ wf = "campaign"
   /\ campaign_trigger = "weather"
   /\ \E k \in DOMAIN completed_steps : completed_steps[k] = "weather_analysis"
   /\ ~ weather_data) =>
    /\ \E k \in DOMAIN errors : errors[k] = "WeatherAgent"
    /\ result.kind = "returned" => result.value.status # "success"

\* ---------------------------------------------------------------- C27
\* C27: a step of the content-generation stage in which the
\* content-generation call raises for the weather campaign leaves
\* 'generated_campaigns' set and an entry of the stage in the error list.
C27_GenerationFailureIsRecorded ==
  [][(weather_data /\ campaign_generation_node("error", FALSE)) =>
       /\ generated_campaigns' # << >>
       /\ \E k \in DOMAIN errors' : errors'[k] = "CampaignGeneratorAgent"]_vars

\* ---------------------------------------------------------------- C28
\* the holiday stage has processed a non-empty list of upcoming holidays
HolidaysProcessed == pc # "holiday_analysis" /\ upcoming_holidays # << >>

\* C28: from a non-empty list of upcoming holidays the holiday stage selects
\* exactly one holiday, its priority score is maximal over the list, and
\* it is the first holiday of the list that has the maximal score.
C28_PrimaryHolidayIsFirstMaximal ==
  HolidaysProcessed =>
    /\ Len(primary_holiday) = 1
    /\ \E i \in DOMAIN upcoming_holidays :
         /\ upcoming_holidays[i] = primary_holiday[1]
         /\ \A j \in DOMAIN upcoming_holidays :
              /\ holiday_priority_score(upcoming_holidays[j])
                   <= holiday_priority_score(upcoming_holidays[i])
              /\ j < i => holiday_priority_score(upcoming_holidays[j])
                            < holiday_priority_score(upcoming_holidays[i])

\* two different holidays tie for the maximal score, the later one is in the
\* 7 to 21 days window, and the earlier one was selected
C28_Witness ==
  /\ HolidaysProcessed
  /\ Len(upcoming_holidays) = 2
  /\ upcoming_holidays[1] # upcoming_holidays[2]
  /\ upcoming_holidays[1].days_until < 7
  /\ upcoming_holidays[2].days_until >= 7
  /\ holiday_priority_score(upcoming_holidays[1]) = holiday_priority_score(upcoming_holidays[2])
  /\ primary_holiday = << upcoming_holidays[1] >>

\* ---------------------------------------------------------------- C29
\* C29: no metrics row of a group is updated while members of the group are
\* still being attempted, and once the group is done its metrics row was
\* updated exactly once and stores as sent count the number of members whose
\* send succeeded, between 0 and the targeted count of the group.
C29_GroupMetricsPersistedOnce ==
  /\ pc = "send_group_emails" =>
       \A k \in DOMAIN campaign_metrics : campaign_metrics[k].updates = 0
  /\ (pc \notin {"group_email_sending", "send_group_emails"} /\ grouped_campaigns # << >>) =>
       /\ Len(campaign_metrics) = Len(grouped_campaigns)
       /\ \A k \in DOMAIN campaign_metrics :
            LET succeeded == { i \in DOMAIN transac_emails : transac_emails[i].accepted }
            IN /\ campaign_metrics[k].updates = 1
               /\ campaign_metrics[k].emails_sent = Cardinality(succeeded)
               /\ 0 <= campaign_metrics[k].emails_sent
               /\ campaign_metrics[k].emails_sent <= campaign_metrics[k].customers_targeted
               /\ campaign_metrics[k].customers_targeted = Len(grouped_campaigns[k].customers)

\* ---------------------------------------------------------------- C30
\* the dispatch stage of the per-record workflow has completed without error
DispatchCompleted ==
  /\ wf = "campaign"
  /\ \E k \in DOMAIN completed_steps : completed_steps[k] = "email_sending"
  /\ pc \in {"finalize", "END", "done"}
  /\ "EmailSenderAgent" \notin caught

\* C30: after the dispatch stage of the per-record workflow completes without
\* error, every sent record is one of the created records, the sent records
\* come in the order of the created records with none repeated, so the sent
\* count is at most the created count in the state and in the result.
C30_SentIsSubListOfCreated ==
  DispatchCompleted =>
    LET place(r) == CHOOSE j \in DOMAIN campaigns_created : campaigns_created[j] = r
    IN /\ \A i \in DOMAIN campaigns_sent :
            \E j \in DOMAIN campaigns_created : campaigns_created[j] = campaigns_sent[i]
       /\ \A i, k \in DOMAIN campaigns_sent :
            i < k => place(campaigns_sent[i]) < place(campaigns_sent[k])
       /\ Len(campaigns_sent) <= Len(campaigns_created)
       /\ result.kind = "returned" =>
            result.value.campaigns_sent <= result.value.campaigns_created

\* a run that returned after creating three records or more, of which the
\* first was not sent and two or more were
C30_Witness ==
  /\ DispatchCompleted
  /\ exc = ""
  /\ result.kind = "returned"
  /\ result.value.campaigns_created >= 3
  /\ result.value.campaigns_sent >= 2
  /\ result.value.campaigns_sent < result.value.campaigns_created
  /\ campaigns_sent[1] # campaigns_created[1]

====
